---- MODULE Spec2Model ----
(***************************************************************************)
(* Model of assignment-2/BenchDecorator/BenchDecorator.py: the bench       *)
(* decorator (fan-out / join timing protocol, repeated trials, mean and    *)
(* variance) and the test() driver that sweeps the thread counts           *)
(* [1, 2, 4, 8] and writes one result file per configuration.              *)
(*                                                                         *)
(* The main thread's position in wrapper() is pc; every threading.Thread   *)
(* is a record of the list threads; a worker thread takes one step per     *)
(* call of func.  Times are integers (clock ticks); statistics.mean and    *)
(* statistics.variance are computed exactly, as fractions num/den.         *)
(***************************************************************************)
EXTENDS Integers, Sequences, FiniteSets, TLC

(* ----------------------------- bounds --------------------------------- *)
MaxThreads == 3      \* largest n_threads of a direct call of bench
MaxSeqIter == 2      \* largest seq_iter of a direct call of bench
MaxIter == 2         \* largest iter of a direct call of bench
MaxClock == 1        \* largest value time.perf_counter() returns
MaxFailAt == 2       \* direct call: the workload may raise on its 1st..MaxFailAt-th call
MaxTestIter == 1     \* largest iter of a call of test
MaxTestFailAt == 1   \* test: the workload may raise on its 1st..MaxTestFailAt-th call
MaxHangAt == 1       \* the workload may never return from its 1st..MaxHangAt-th call

(* ------------------------ program constants --------------------------- *)
TotalRepetitions == 16                 \* the 16 of `16 // n_threads`
ThreadCounts == <<1, 2, 4, 8>>         \* the list test() iterates

VARIABLES
    n_threads,      \* bench parameter
    seq_iter,       \* bench parameter
    iter,           \* bench parameter
    fun,            \* func.__name__ of the decorated workload
    args,           \* the positional arguments wrapper() is called with
    failSet,        \* the workload raises on exactly these invocation numbers
    hangSet,        \* the workload never returns from exactly these invocations
    counter,        \* number of invocations of the workload so far
    pc,             \* position of the main thread in wrapper()
    trial,          \* iterations of the `for _ in range(iter)` loop completed
    threads,        \* the list threads of the current trial
    idx,            \* position of the start loop / join loop in threads
    clock,          \* last value returned by time.perf_counter()
    start_time,     \* local start_time of wrapper()
    results,        \* local results of wrapper(): the elapsed times
    varianceInput,  \* <<data>> once statistics.variance(data) has been called
    result_dict,    \* <<dict>> once wrapper() has returned, else << >>
    error,          \* name of the exception wrapper() / test() raised, or ""
    spc,            \* position of test(): "direct" when bench is called directly
    test_iter,      \* parameter iter of test()
    cfg,            \* index into ThreadCounts of the configuration of test()
    sink            \* the result files written by test(), in order

vars == <<n_threads, seq_iter, iter, fun, args, failSet, hangSet, counter, pc, trial, threads,
          idx, clock, start_time, results, varianceInput, result_dict, error,
          spc, test_iter, cfg, sink>>

workloadVars == <<fun, args, failSet, hangSet>>
configVars == <<n_threads, seq_iter, iter>>
sweepVars == <<spc, test_iter, cfg, sink>>

(* ----------------------------- inputs --------------------------------- *)
\* lines 103-104: the workloads and arguments of the entry point
Workloads == {[name |-> "just_wait", args |-> <<5>>],
              [name |-> "grezzo", args |-> <<5>>]}
ThreadParams == -1 .. MaxThreads
SeqIterParams == -1 .. MaxSeqIter
IterParams == -1 .. MaxIter
TestIterParams == 0 .. MaxTestIter
FailSets == SUBSET (1 .. MaxFailAt)
TestFailSets == SUBSET (1 .. MaxTestFailAt)
HangSets == SUBSET (1 .. MaxHangAt)

(* ------------------------ helpers: range, sums ------------------------ *)
\* number of iterations of `for _ in range(n)`
RangeLen(n) == IF n > 0 THEN n ELSE 0

RECURSIVE Sum(_)
Sum(s) == IF s = << >> THEN 0 ELSE Head(s) + Sum(Tail(s))

RECURSIVE SumSq(_)
SumSq(s) == IF s = << >> THEN 0 ELSE Head(s) * Head(s) + SumSq(Tail(s))

RECURSIVE SumCalls(_)
SumCalls(ts) == IF ts = << >> THEN 0 ELSE Head(ts).k + SumCalls(Tail(ts))

Frac(n, d) == [num |-> n, den |-> d]

\* statistics.mean(data): the exact mean, sum(data) / len(data)
Mean(data) == Frac(Sum(data), Len(data))

\* statistics.variance(data): sample variance, sum((x - mean)^2) / (n - 1)
\*   = (n * sum(x^2) - sum(x)^2) / (n * (n - 1))
Variance(data) ==
    Frac(Len(data) * SumSq(data) - Sum(data) * Sum(data),
         Len(data) * (Len(data) - 1))

\* faulty variant of SingleTrial: the special case tests the wrong count
SingleTrial_Zero(it) == it = 0

\* line 48: the one-sample special case
SingleTrial(it) == it = 1

\* faulty variant of Elapsed: the operands of the subtraction swapped
Elapsed_Swapped(start, end) == start - end

\* line 43: execution_time = end_time - start_time
Elapsed(start, end) == end - start

\* faulty variant of SeqIterFor: the total is not divided among the threads
SeqIterFor_Undivided(n) == TotalRepetitions

\* line 92: seq_iter = 16 // n_threads
SeqIterFor(n) == TotalRepetitions \div n

(* --------------------------- worker threads --------------------------- *)
NewThread == [st |-> "created", k |-> 0, exc |-> FALSE]

\* faulty variant of Terminated: join() returns for a thread that is still running
Terminated_NoWait(t) == t.st \in {"running", "finished"}

\* Thread.join() returns once the thread has terminated
Terminated(t) == t.st = "finished"

\* the workload: raises on the invocation numbers in failSet
Raises(c) == c \in failSet

\* the workload: never returns from the invocation numbers in hangSet
Hangs(c) == c \in hangSet

\* faulty variant of Exhausted: the loop stops one call early
Exhausted_OneEarly(k) == k + 1 >= RangeLen(seq_iter)

\* lines 29-30: `for _ in range(seq_iter)` has run k times: is it exhausted?
Exhausted(k) == k >= RangeLen(seq_iter)

(* ------------------------------- Init --------------------------------- *)
WrapperEntry ==
    /\ pc = "loop"
    /\ trial = 0
    /\ threads = << >>
    /\ idx = 0
    /\ start_time = 0
    /\ results = << >>
    /\ varianceInput = << >>
    /\ result_dict = << >>
    /\ error = ""

\* bench(n_threads, seq_iter, iter)(func)(*args) called directly
Init ==
    /\ n_threads \in ThreadParams
    /\ seq_iter \in SeqIterParams
    /\ iter \in IterParams
    /\ \E w \in Workloads : fun = w.name /\ args = w.args
    /\ failSet \in FailSets
    /\ hangSet \in {h \in HangSets : h \cap failSet = {}}
    /\ counter = 0
    /\ clock = 0
    /\ WrapperEntry
    /\ spc = "direct"
    /\ test_iter = 0
    /\ cfg = 0
    /\ sink = << >>

\* test(iter, fun, args) called
SweepInit ==
    /\ n_threads = 0
    /\ seq_iter = 0
    /\ iter = 0
    /\ \E w \in Workloads : fun = w.name /\ args = w.args
    /\ failSet \in TestFailSets
    /\ hangSet \in {h \in HangSets : h \cap failSet = {}}
    /\ counter = 0
    /\ clock = 0
    /\ pc = "idle"
    /\ trial = 0
    /\ threads = << >>
    /\ idx = 0
    /\ start_time = 0
    /\ results = << >>
    /\ varianceInput = << >>
    /\ result_dict = << >>
    /\ error = ""
    /\ spc = "for"
    /\ test_iter \in TestIterParams
    /\ cfg = 1
    /\ sink = << >>

(* --------------------------- wrapper(): trial ------------------------- *)
\* faulty variant of TrialBegin: the list threads is not reset for the trial
TrialBegin_NoReset ==
    /\ pc = "loop"
    /\ trial < RangeLen(iter)
    /\ \E t \in clock .. MaxClock :
          /\ clock' = t
          /\ start_time' = t
    /\ pc' = "create"
    /\ UNCHANGED <<configVars, workloadVars, counter, trial, threads, idx,
                   results, varianceInput, result_dict, error, sweepVars>>

\* lines 25-32: next iteration of the trial loop: threads = [], worker is
\* defined, start_time = time.perf_counter()
TrialBegin ==
    /\ pc = "loop"
    /\ trial < RangeLen(iter)
    /\ \E t \in clock .. MaxClock :
          /\ clock' = t
          /\ start_time' = t
    /\ threads' = << >>
    /\ pc' = "create"
    /\ UNCHANGED <<configVars, workloadVars, counter, trial, idx, results,
                   varianceInput, result_dict, error, sweepVars>>

\* lines 33-35: one iteration of `for _ in range(n_threads)`
CreateThread ==
    /\ pc = "create"
    /\ Len(threads) < RangeLen(n_threads)
    /\ threads' = Append(threads, NewThread)
    /\ UNCHANGED <<configVars, workloadVars, counter, pc, trial, idx, clock,
                   start_time, results, varianceInput, result_dict, error,
                   sweepVars>>

\* line 33 exhausted, line 37 entered
CreateDone ==
    /\ pc = "create"
    /\ Len(threads) >= RangeLen(n_threads)
    /\ pc' = "start"
    /\ idx' = 1
    /\ UNCHANGED <<configVars, workloadVars, counter, trial, threads, clock,
                   start_time, results, varianceInput, result_dict, error,
                   sweepVars>>

\* faulty variant of StartThread: a thread is started only once the thread
\* before it has terminated (start and join in one loop)
StartThread_Serial ==
    /\ pc = "start"
    /\ idx <= Len(threads)
    /\ IF idx = 1 THEN TRUE ELSE threads[idx - 1].st = "finished"
    /\ threads' = [threads EXCEPT ![idx].st = "running"]
    /\ idx' = idx + 1
    /\ UNCHANGED <<configVars, workloadVars, counter, pc, trial, clock,
                   start_time, results, varianceInput, result_dict, error,
                   sweepVars>>

\* lines 37-38: thread.start() of the idx-th thread
StartThread ==
    /\ pc = "start"
    /\ idx <= Len(threads)
    /\ threads' = [threads EXCEPT ![idx].st = "running"]
    /\ idx' = idx + 1
    /\ UNCHANGED <<configVars, workloadVars, counter, pc, trial, clock,
                   start_time, results, varianceInput, result_dict, error,
                   sweepVars>>

\* line 37 exhausted, line 40 entered
StartDone ==
    /\ pc = "start"
    /\ idx > Len(threads)
    /\ pc' = "join"
    /\ idx' = 1
    /\ UNCHANGED <<configVars, workloadVars, counter, trial, threads, clock,
                   start_time, results, varianceInput, result_dict, error,
                   sweepVars>>

\* faulty variant of WorkerStep: a call that raises leaves its thread alive
\* for ever instead of ending it
WorkerStep_RaiseBlocks(i) ==
    /\ i \in 1 .. Len(threads)
    /\ threads[i].st = "running"
    /\ IF Exhausted(threads[i].k)
       THEN /\ threads' = [threads EXCEPT ![i].st = "finished"]
            /\ UNCHANGED counter
       ELSE /\ counter' = counter + 1
            /\ threads' =
                 [threads EXCEPT ![i] =
                    [st  |-> IF Hangs(counter + 1) \/ Raises(counter + 1)
                             THEN "blocked"
                             ELSE IF Exhausted(@.k + 1)
                             THEN "finished" ELSE "running",
                     k   |-> @.k + 1,
                     exc |-> Raises(counter + 1)]]
    /\ UNCHANGED <<configVars, workloadVars, pc, trial, idx, clock, start_time,
                   results, varianceInput, result_dict, error, sweepVars>>

\* lines 28-30: one step of worker() in thread i.  While range(seq_iter) is
\* not exhausted the step is one call func(*args, **kwargs); a call that
\* raises ends the thread (threading prints the traceback and the thread
\* terminates); the call that exhausts the range is followed at once by the
\* return of worker().  With nothing to iterate the step is that return.
\* A call that never returns leaves the thread inside func for ever
\* ("blocked"): there is no timeout and no cancellation.
WorkerStep(i) ==
    /\ i \in 1 .. Len(threads)
    /\ threads[i].st = "running"
    /\ IF Exhausted(threads[i].k)
       THEN /\ threads' = [threads EXCEPT ![i].st = "finished"]
            /\ UNCHANGED counter
       ELSE /\ counter' = counter + 1
            /\ threads' =
                 [threads EXCEPT ![i] =
                    [st  |-> IF Hangs(counter + 1) THEN "blocked"
                             ELSE IF Raises(counter + 1) \/ Exhausted(@.k + 1)
                             THEN "finished" ELSE "running",
                     k   |-> @.k + 1,
                     exc |-> Raises(counter + 1)]]
    /\ UNCHANGED <<configVars, workloadVars, pc, trial, idx, clock, start_time,
                   results, varianceInput, result_dict, error, sweepVars>>

\* faulty variant of JoinThread: the join loop does not block
JoinThread_NoBlock ==
    /\ pc = "join"
    /\ idx <= Len(threads)
    /\ idx' = idx + 1
    /\ UNCHANGED <<configVars, workloadVars, counter, pc, trial, threads, clock,
                   start_time, results, varianceInput, result_dict, error,
                   sweepVars>>

\* lines 40-41: thread.join() of the idx-th thread returns
JoinThread ==
    /\ pc = "join"
    /\ idx <= Len(threads)
    /\ Terminated(threads[idx])
    /\ idx' = idx + 1
    /\ UNCHANGED <<configVars, workloadVars, counter, pc, trial, threads, clock,
                   start_time, results, varianceInput, result_dict, error,
                   sweepVars>>

\* faulty variant of TrialEnd: the end timestamp is taken without the joins
TrialEnd_NoJoin ==
    /\ pc = "join"
    /\ \E end_time \in clock .. MaxClock :
          /\ clock' = end_time
          /\ results' = Append(results, Elapsed(start_time, end_time))
    /\ trial' = trial + 1
    /\ pc' = "loop"
    /\ UNCHANGED <<configVars, workloadVars, counter, threads, idx, start_time,
                   varianceInput, result_dict, error, sweepVars>>

\* faulty variant of TrialEnd: the elapsed time is inserted at the front
TrialEnd_Prepend ==
    /\ pc = "join"
    /\ idx > Len(threads)
    /\ \E end_time \in clock .. MaxClock :
          /\ clock' = end_time
          /\ results' = <<Elapsed(start_time, end_time)>> \o results
    /\ trial' = trial + 1
    /\ pc' = "loop"
    /\ UNCHANGED <<configVars, workloadVars, counter, threads, idx, start_time,
                   varianceInput, result_dict, error, sweepVars>>

\* lines 42-44: line 40 exhausted; end_time = time.perf_counter(),
\* execution_time = end_time - start_time, results.append(execution_time)
TrialEnd ==
    /\ pc = "join"
    /\ idx > Len(threads)
    /\ \E end_time \in clock .. MaxClock :
          /\ clock' = end_time
          /\ results' = Append(results, Elapsed(start_time, end_time))
    /\ trial' = trial + 1
    /\ pc' = "loop"
    /\ UNCHANGED <<configVars, workloadVars, counter, threads, idx, start_time,
                   varianceInput, result_dict, error, sweepVars>>

(* ------------------------- wrapper(): statistics ---------------------- *)
\* faulty variant of ResultDict: two parameters stored under each other's key
ResultDict_Swapped(m, v) ==
    [fun |-> fun, args |-> args, n_threads |-> seq_iter, seq_iter |-> n_threads,
     iter |-> iter, mean |-> m, variance |-> v]

\* lines 53-61: result_dict
ResultDict(m, v) ==
    [fun |-> fun, args |-> args, n_threads |-> n_threads, seq_iter |-> seq_iter,
     iter |-> iter, mean |-> m, variance |-> v]

\* lines 46-63 after the last trial.  statistics.mean raises StatisticsError
\* on empty data, statistics.variance on fewer than two data points.
Stats ==
    /\ pc = "loop"
    /\ trial >= RangeLen(iter)
    /\ IF results = << >>
       THEN /\ pc' = "raised"
            /\ error' = "StatisticsError"
            /\ UNCHANGED <<varianceInput, result_dict>>
       ELSE IF SingleTrial(iter)
       THEN /\ pc' = "returned"
            /\ result_dict' = <<ResultDict(Mean(results), Frac(0, 1))>>
            /\ UNCHANGED <<varianceInput, error>>
       ELSE IF Len(results) < 2
       THEN /\ pc' = "raised"
            /\ error' = "StatisticsError"
            /\ varianceInput' = <<results>>
            /\ UNCHANGED result_dict
       ELSE /\ pc' = "returned"
            /\ result_dict' = <<ResultDict(Mean(results), Variance(results))>>
            /\ varianceInput' = <<results>>
            /\ UNCHANGED error
    /\ UNCHANGED <<configVars, workloadVars, counter, trial, threads, idx,
                   clock, start_time, results, sweepVars>>

Worker == \E i \in 1 .. Len(threads) : WorkerStep(i)

Engine ==
    \/ TrialBegin
    \/ CreateThread
    \/ CreateDone
    \/ StartThread
    \/ StartDone
    \/ Worker
    \/ JoinThread
    \/ TrialEnd
    \/ Stats

Next == Engine

Spec == Init /\ [][Next]_vars

\* the steps of the main thread inside wrapper()
Main ==
    \/ TrialBegin
    \/ CreateThread
    \/ CreateDone
    \/ StartThread
    \/ StartDone
    \/ JoinThread
    \/ TrialEnd
    \/ Stats

\* The interpreter schedules every thread that can run: the main thread and
\* each started worker thread takes its next step eventually.
FairSpec ==
    /\ Spec
    /\ WF_vars(Main)
    /\ \A i \in 1 .. MaxThreads : WF_vars(WorkerStep(i))

(* ------------------------------ test() -------------------------------- *)
\* line 95: filename = f"results/{fun.__name__}_{args}_{n_threads}_{seq_iter}.txt"
FileName == <<fun, args, n_threads, seq_iter>>

\* lines 91-93: next n_threads of the list, seq_iter = 16 // n_threads, and
\* the call bench(n_threads, seq_iter, iter)(fun)(*args) enters wrapper()
SweepCall ==
    /\ spc = "for"
    /\ cfg <= Len(ThreadCounts)
    /\ n_threads' = ThreadCounts[cfg]
    /\ seq_iter' = SeqIterFor(ThreadCounts[cfg])
    /\ iter' = test_iter
    /\ pc' = "loop"
    /\ trial' = 0
    /\ threads' = << >>
    /\ idx' = 0
    /\ start_time' = 0
    /\ results' = << >>
    /\ varianceInput' = << >>
    /\ result_dict' = << >>
    /\ error' = ""
    /\ spc' = "bench"
    /\ UNCHANGED <<workloadVars, counter, clock, test_iter, cfg, sink>>

\* faulty variant of SweepWrite: an OSError is swallowed and the loop goes on
SweepWrite_Swallow ==
    /\ spc = "bench"
    /\ pc = "returned"
    /\ \/ sink' = Append(sink, [file |-> FileName, content |-> result_dict[1]])
       \/ sink' = sink
    /\ cfg' = cfg + 1
    /\ spc' = "for"
    /\ pc' = "idle"
    /\ UNCHANGED <<configVars, workloadVars, counter, trial, threads, idx,
                   clock, start_time, results, varianceInput, result_dict,
                   error, test_iter>>

\* lines 93-99: wrapper() has returned result; it is printed and written to
\* the file.  open() or write() may raise OSError, which leaves test().
SweepWrite ==
    /\ spc = "bench"
    /\ pc = "returned"
    /\ \/ /\ sink' = Append(sink, [file |-> FileName, content |-> result_dict[1]])
          /\ cfg' = cfg + 1
          /\ spc' = "for"
          /\ pc' = "idle"
          /\ UNCHANGED error
       \/ /\ spc' = "raised"
          /\ error' = "OSError"
          /\ pc' = "idle"
          /\ UNCHANGED <<cfg, sink>>
    /\ UNCHANGED <<configVars, workloadVars, counter, trial, threads, idx,
                   clock, start_time, results, varianceInput, result_dict,
                   test_iter>>

\* line 93: the exception raised by wrapper() leaves test()
SweepRaise ==
    /\ spc = "bench"
    /\ pc = "raised"
    /\ spc' = "raised"
    /\ pc' = "idle"
    /\ UNCHANGED <<configVars, workloadVars, counter, trial, threads, idx,
                   clock, start_time, results, varianceInput, result_dict,
                   error, test_iter, cfg, sink>>

\* line 91 exhausted: test() returns
SweepDone ==
    /\ spc = "for"
    /\ cfg > Len(ThreadCounts)
    /\ spc' = "done"
    /\ UNCHANGED <<configVars, workloadVars, counter, pc, trial, threads, idx,
                   clock, start_time, results, varianceInput, result_dict,
                   error, test_iter, cfg, sink>>

SweepNext ==
    \/ SweepCall
    \/ Engine
    \/ SweepWrite
    \/ SweepRaise
    \/ SweepDone

SweepSpec == SweepInit /\ [][SweepNext]_vars

(* ============================== claims ================================ *)
Valid == n_threads >= 1 /\ seq_iter >= 1 /\ iter >= 1

\* some invocation of the workload made so far has raised
Failed == \E c \in 1 .. counter : Raises(c)

\* every thread.join() of the current trial has returned
AllJoined == pc = "join" /\ idx > Len(threads)

\* wrapper() is past lines 42-44 of at least one trial
TrialRecorded == trial >= 1 /\ pc \in {"loop", "returned", "raised"}

(* C1: with n_threads, seq_iter, iter >= 1 and a workload that never raises,
   a trial never makes more than n_threads * seq_iter calls, and once its
   joins are done it has made exactly that many: exactly n_threads workers,
   each with exactly seq_iter calls, whatever the interleaving; the calls of
   the run so far are that many per finished trial. *)
C1_CallCount ==
    (Valid /\ failSet = {}) =>
        /\ SumCalls(threads) <= n_threads * seq_iter
        /\ (AllJoined \/ TrialRecorded) =>
              /\ Len(threads) = n_threads
              /\ \A i \in 1 .. Len(threads) : threads[i].k = seq_iter
              /\ SumCalls(threads) = n_threads * seq_iter
              /\ counter = (IF AllJoined THEN trial + 1 ELSE trial)
                              * n_threads * seq_iter

C1_Witness ==
    /\ Valid /\ failSet = {}
    /\ n_threads = 2 /\ seq_iter = 2 /\ iter = 2
    /\ pc = "returned"
    /\ counter = 8

(* C2: once the end timestamp of a trial is recorded (and when wrapper()
   returns) every worker of the trial has terminated having made all of its
   seq_iter calls; with valid parameters and iter = 1 the number of calls
   counted when wrapper() returns is n_threads * seq_iter. *)
C2_JoinComplete ==
    /\ TrialRecorded =>
          \A i \in 1 .. Len(threads) :
              threads[i].st = "finished" /\ threads[i].k = RangeLen(seq_iter)
    /\ (Valid /\ iter = 1 /\ pc = "returned") =>
          counter = n_threads * seq_iter

(* C3: trials are strictly sequential: a worker is created only in the
   creation loop and started only in the start loop of the current trial,
   and the step that begins a trial (discarding the thread list of the
   previous one) is taken only when every thread of the previous trial has
   terminated and been joined and one elapsed time per previous trial has
   been appended to results. *)
C3_TrialsSequential ==
    [][ /\ (Len(threads') > Len(threads)) => (pc = "create" /\ pc' = "create")
        /\ (\E i \in 1 .. Len(threads') :
               threads'[i].st = "running" /\ threads[i].st = "created")
             => (pc = "start" /\ Len(results) = trial)
        /\ (pc = "loop" /\ pc' = "create") =>
              /\ \A i \in 1 .. Len(threads) : threads[i].st = "finished"
              /\ (trial >= 1 => idx = Len(threads) + 1)
              /\ Len(results) = trial
              /\ threads' = << >>
      ]_vars

C3_Witness ==
    /\ trial = 1
    /\ pc = "start"
    /\ Len(threads) = 2
    /\ threads[1].st = "running"
    /\ Len(results) = 1

(* C4: once an invocation of the workload has raised inside a worker, the
   call of wrapper() fails: it never returns a result. *)
C4_FailureSurfaces ==
    Failed => (result_dict = << >> /\ pc # "returned")

(* C5: with n_threads < 1 the call is rejected: it makes no invocation of
   the workload and never returns a result. *)
C5_RejectsThreadCount ==
    (n_threads < 1) =>
        /\ counter = 0
        /\ result_dict = << >>
        /\ pc # "returned"

(* C6: with seq_iter < 1 or iter < 1 the call is rejected before any worker
   is created: no thread is ever created and no result is returned. *)
C6_RejectsRepetitions ==
    (seq_iter < 1 \/ iter < 1) =>
        /\ threads = << >>
        /\ result_dict = << >>
        /\ pc # "returned"

(* C7: with iter = 1 wrapper() returns variance 0 whatever the measured
   time, statistics.variance is not called and no StatisticsError is raised;
   statistics.variance is never applied to a one-element sequence. *)
C7_SingleTrialVariance ==
    /\ (iter = 1) =>
          /\ varianceInput = << >>
          /\ pc # "raised"
          /\ (pc = "returned" => result_dict[1].variance = Frac(0, 1))
    /\ (varianceInput # << >>) => Len(varianceInput[1]) # 1

C7_Witness ==
    /\ iter = 1
    /\ pc = "returned"
    /\ results = <<1>>
    /\ result_dict[1].variance.num = 0

(* C8: with valid parameters and a monotonic clock every elapsed time in
   results is >= 0, wrapper() does not raise, and the mean it returns is a
   fraction with positive denominator and numerator >= 0. *)
C8_MeanNonNegative ==
    Valid =>
        /\ \A j \in 1 .. Len(results) : results[j] >= 0
        /\ pc # "raised"
        /\ (pc = "returned" =>
              /\ result_dict[1].mean.den > 0
              /\ result_dict[1].mean.num >= 0)

C8_Witness ==
    /\ Valid
    /\ pc = "returned"
    /\ iter = 2
    /\ result_dict[1].mean.num > 0

(* C9: every call of bench made by test() has n_threads taken from
   [1, 2, 4, 8] in turn and seq_iter = 16, 8, 4, 2 respectively, so
   n_threads * seq_iter = 16 in every configuration. *)
C9_TotalWork ==
    (spc = "bench") =>
        /\ n_threads = ThreadCounts[cfg]
        /\ n_threads * seq_iter = TotalRepetitions
        /\ <<n_threads, seq_iter>> \in {<<1, 16>>, <<2, 8>>, <<4, 4>>, <<8, 2>>}

C9_Witness ==
    /\ spc = "bench"
    /\ n_threads = 8
    /\ seq_iter = 2
    /\ pc = "join"

(* C10: the files written by test() are, in order, the results of the
   thread counts 1, 2, 4, 8: the j-th file is the result for the j-th
   thread count, never more files than thread counts, the file of a
   configuration is written before the next configuration is run, and when
   test() returns there is exactly one file per thread count. *)
C10_SinkOrder ==
    /\ Len(sink) <= Len(ThreadCounts)
    /\ \A j \in 1 .. Len(sink) :
          /\ sink[j].content.n_threads = ThreadCounts[j]
          /\ sink[j].file[3] = ThreadCounts[j]
    /\ (spc \in {"for", "bench"}) => Len(sink) = cfg - 1
    /\ (spc = "done") => Len(sink) = Len(ThreadCounts)

C10_Witness ==
    /\ spc = "done"
    /\ Len(sink) = 4
    /\ sink[4].content.n_threads = 8

\* a worker thread that has been started and has not terminated
Alive(t) == t.st \in {"running", "blocked"}

\* the first invocation number on which the workload has raised
FirstFail ==
    CHOOSE c \in failSet : c <= counter /\ \A d \in failSet : d >= c

\* the configuration of test() in which that invocation was made: every
\* configuration before it made TotalRepetitions * test_iter invocations
FailedCfg == ((FirstFail - 1) \div (TotalRepetitions * test_iter)) + 1

(* C11: once an invocation of the workload has raised inside a worker of
   one configuration of test(), the sweep stops there: the result of that
   configuration is not written, no later configuration is benchmarked and
   test() does not complete. *)
C11_SweepStopsOnFailure ==
    Failed =>
        /\ spc # "done"
        /\ cfg = FailedCfg
        /\ Len(sink) < FailedCfg

(* C12: every invocation of the workload and every thread start of a trial
   happens between the two clock reads of that trial: after start_time was
   read (it is still the last value read from the clock) and before the end
   timestamp is read and the elapsed time appended. *)
C12_CallsBetweenTimestamps ==
    [][ /\ (counter' # counter) =>
              /\ pc \in {"start", "join"}
              /\ clock = start_time
              /\ clock' = clock
              /\ Len(results) = trial
              /\ results' = results
        /\ (\E i \in 1 .. Len(threads') :
               threads'[i].st = "running" /\ threads[i].st = "created")
             => (pc = "start" /\ clock = start_time /\ clock' = clock)
        /\ (clock' # clock \/ results' # results) =>
              \A i \in 1 .. Len(threads) : ~Alive(threads[i])
      ]_vars

C12_Witness ==
    /\ trial = 1
    /\ pc = "join"
    /\ start_time = 1
    /\ \E i \in 1 .. Len(threads) : threads[i].st = "running" /\ threads[i].k = 1

(* C13: the start loop starts the threads in list order without waiting
   for any of them: while a thread is left to start, starting it is
   enabled whatever the started threads are doing; the join loop is entered
   only with all n_threads threads started, and they can all be running at
   once. *)
C13_FanOutBeforeFanIn ==
    /\ (pc = "start") =>
          /\ \A i \in 1 .. Len(threads) :
                (i < idx) <=> (threads[i].st # "created")
          /\ (idx <= Len(threads)) => ENABLED StartThread
    /\ (pc = "join") =>
          /\ Len(threads) = RangeLen(n_threads)
          /\ \A i \in 1 .. Len(threads) : threads[i].st # "created"

C13_Witness ==
    /\ n_threads = 3
    /\ pc = "join"
    /\ idx = 1
    /\ \A i \in 1 .. Len(threads) : threads[i].st = "running"
    /\ Len(threads) = 3

(* C14: results is appended to only by the main thread, after all joins of
   the current trial and while no worker is alive: the step that changes
   results changes no thread and makes no invocation, and no step taken
   while a worker is alive changes results. *)
C14_ResultsSingleWriter ==
    [][ /\ (results' # results) =>
              /\ pc = "join" /\ idx > Len(threads)
              /\ \A i \in 1 .. Len(threads) : threads[i].st = "finished"
              /\ threads' = threads
              /\ counter' = counter
              /\ pc' = "loop"
        /\ (\E i \in 1 .. Len(threads) : Alive(threads[i])) =>
              results' = results
      ]_vars

C14_Witness ==
    /\ Len(results) = 1
    /\ pc = "join"
    /\ \E i \in 1 .. Len(threads) : Alive(threads[i])

(* C15: results gets one sample per trial, appended at the end in trial
   order: the sample appended by the trial that completes as number
   trial + 1 is that trial's elapsed time and becomes element trial + 1;
   when the statistics are computed results holds exactly one sample per
   iteration of range(iter), that is iter samples for iter >= 0. *)
C15_OneSamplePerTrial ==
    [][ /\ (results' # results) =>
              /\ Len(results) = trial
              /\ trial' = trial + 1
              /\ results' = Append(results, clock' - start_time)
        /\ (pc = "loop" /\ pc' \in {"returned", "raised"}) =>
              /\ Len(results) = RangeLen(iter)
              /\ trial = RangeLen(iter)
              /\ (iter >= 0 => Len(results) = iter)
      ]_vars

C15_Witness ==
    /\ pc = "returned"
    /\ iter = 2
    /\ results = <<1, 0>>

\* some worker is inside an invocation that never returns
Hung == \E i \in 1 .. Len(threads) : threads[i].st = "blocked"

(* C16: with valid parameters and a workload all of whose invocations
   terminate (by returning or by raising), under fair scheduling of the
   threads wrapper() eventually returns a result, after exactly iter
   trials; once a worker is inside an invocation that never returns,
   wrapper() never returns and never raises: there is no timeout. *)
C16_Termination ==
    /\ (Valid /\ hangSet = {}) ~>
          (pc = "returned" /\ trial = iter /\ Len(results) = iter)
    /\ [](Hung => [](pc \notin {"returned", "raised"} /\ result_dict = << >>))

C16_Witness ==
    /\ Valid /\ hangSet = {}
    /\ n_threads = 3 /\ iter = 2
    /\ pc = "returned"
    /\ trial = 2

(* C17: the result returned by wrapper() carries the name of the workload,
   the positional arguments of the call and the three parameters given to
   bench, unchanged, whatever the workers did (also when one raised). *)
C17_EchoesInputs ==
    (pc = "returned") =>
        /\ Len(result_dict) = 1
        /\ result_dict[1].fun = fun
        /\ result_dict[1].args = args
        /\ result_dict[1].n_threads = n_threads
        /\ result_dict[1].seq_iter = seq_iter
        /\ result_dict[1].iter = iter
        /\ \E w \in Workloads : result_dict[1].fun = w.name
                                  /\ result_dict[1].args = w.args

C17_Witness ==
    /\ pc = "returned"
    /\ Failed
    /\ result_dict[1].fun = "grezzo"
    /\ result_dict[1].n_threads = 3
    /\ result_dict[1].seq_iter = 2
    /\ result_dict[1].iter = 1

(* C18: the list threads never holds more threads than range(n_threads)
   has elements (n_threads of them for n_threads >= 0); no thread is
   started before all of them are created; the threads joined in a trial
   are exactly the threads started in it; every trial starts from an empty
   list, so during creation every thread of the list is a new one. *)
C18_WorkerSet ==
    /\ Len(threads) <= RangeLen(n_threads)
    /\ (n_threads >= 0) => Len(threads) <= n_threads
    /\ (pc = "create") =>
          \A i \in 1 .. Len(threads) : threads[i] = NewThread
    /\ (\E i \in 1 .. Len(threads) : threads[i].st # "created") =>
          Len(threads) = RangeLen(n_threads)
    /\ (pc = "join") =>
          \A i \in 1 .. Len(threads) :
              /\ threads[i].st # "created"
              /\ (i < idx) => threads[i].st = "finished"
    /\ (AllJoined \/ TrialRecorded) =>
          /\ Len(threads) = RangeLen(n_threads)
          /\ \A i \in 1 .. Len(threads) : threads[i].st = "finished"

C18_Witness ==
    /\ trial = 1
    /\ AllJoined
    /\ Len(threads) = 3
    /\ counter = 12

(* C19: a call that raises ends only the worker it was made in: that
   thread is terminated and makes no further call; every other worker of
   the trial has made all of its seq_iter calls when the joins are done;
   and, unless an invocation never returns, wrapper() is never stuck: until
   it has returned or raised some step is enabled. *)
C19_FailureEndsOneWorker ==
    /\ \A i \in 1 .. Len(threads) :
          threads[i].exc =>
              /\ threads[i].st = "finished"
              /\ threads[i].k >= 1
              /\ threads[i].k <= RangeLen(seq_iter)
    /\ (AllJoined \/ TrialRecorded) =>
          \A i \in 1 .. Len(threads) :
              (~threads[i].exc) => threads[i].k = RangeLen(seq_iter)
    /\ (hangSet = {}) => (pc \in {"returned", "raised"} \/ ENABLED Next)

C19_Witness ==
    /\ pc = "returned"
    /\ n_threads = 2 /\ seq_iter = 2
    /\ threads[1].exc /\ threads[1].k = 1
    /\ ~threads[2].exc /\ threads[2].k = 2

(* C20: test() runs the configurations strictly one after the other: a
   worker exists unterminated only inside the bench call of the current
   configuration, when the files of all earlier configurations, and only
   those, are written; after an OSError from writing the file of a
   configuration test() takes no further step, the files written before
   are still there and no later configuration is benchmarked. *)
C20_SweepSequential ==
    /\ (\E i \in 1 .. Len(threads) : threads[i].st # "finished") =>
          /\ spc = "bench"
          /\ pc \in {"create", "start", "join"}
          /\ n_threads = ThreadCounts[cfg]
          /\ Len(sink) = cfg - 1
          /\ \A j \in 1 .. cfg - 1 : sink[j].file[3] = ThreadCounts[j]
    /\ (error = "OSError") =>
          /\ spc = "raised"
          /\ ~ENABLED SweepNext
          /\ Len(sink) = cfg - 1
          /\ n_threads = ThreadCounts[cfg]
          /\ \A j \in 1 .. cfg - 1 : sink[j].content.n_threads = ThreadCounts[j]

C20_Witness ==
    /\ error = "OSError"
    /\ cfg = 3
    /\ Len(sink) = 2
    /\ sink[2].content.n_threads = 2

====
